---- MODULE Spec2Model ----
(***************************************************************************)
(* A model of the Dota 2 tracker back end (server.js): the refresh         *)
(* orchestrator (refreshAllData, refreshLiveOnly), fetchWithRetry, the     *)
(* image proxy and the HTTP front door.                                    *)
(*                                                                         *)
(* JavaScript runs one callback at a time, so every action below is one    *)
(* run-to-completion step: the code between two awaits of an async         *)
(* function, or one event handler.                                         *)
(***************************************************************************)
EXTENDS Integers, Sequences, FiniteSets, TLC

VARIABLES
    listening,      \* the server.listen callback has run (timers are set)
    cachedData,     \* server.js:31, null or the snapshot
    isRefreshing,   \* server.js:32
    cycles,         \* the refreshAllData invocations that are past line 257 and not yet past finally
    liveRuns,       \* the number of refreshLiveOnly invocations awaiting their /live fetch
    now,            \* the wall clock (Date.now()), in milliseconds
    resp,           \* the last response written by the front door
    trigger,        \* history: how the latest call of refreshAllData went: "none", "started", "dropped"
    installed,      \* history: some cycle has reached line 303
    calls,          \* fetchWithRetry invocations observed on their own: call id -> its position
    imgCache,       \* server.js:351, url -> null or { data, contentType, timestamp }
    imgReqs,        \* the /api/img handlers awaiting proxyImage: requested url, url being fetched, redirects followed
    imgOutbound,    \* history: the urls proxyImage has passed to https.get
    imgServed,      \* history: url -> when /api/img last answered 200 for it after fetching it
    unhandled,      \* history: an exception left the request handler (an unhandled rejection)
    playerHeroCache,\* server.js:33, account id -> null or { data, timestamp }
    playerReqs,     \* the /api/player/:id/heroes handlers awaiting getPlayerHeroes: their account ids
    fileReqs,       \* the static-file handlers awaiting fs.readFile: file path and content type
    wikiPage,       \* the match blocks of the wiki page given to the parser of fetchUpcoming
    scraped,        \* null, or what the parser of fetchUpcoming made of wikiPage
    matchesIn,      \* the match list given to groupMatchesIntoSeries
    seriesOut,      \* null, or what groupMatchesIntoSeries returned for matchesIn
    fe              \* the front end (app.js): its globals, its load and poll callbacks, its timers

refreshVars == <<listening, cachedData, isRefreshing, cycles, liveRuns, now, resp, trigger, installed>>

imgVars == <<imgCache, imgReqs, imgOutbound, imgServed, unhandled>>

frontVars == <<playerHeroCache, playerReqs, fileReqs>>

pureVars == <<wikiPage, scraped, matchesIn, seriesOut>>

vars == <<refreshVars, calls, imgVars, frontVars, pureVars, fe>>

----------------------------------------------------------------------------
(* Bounds of the model *)

\* the refresh orchestrator is followed for MaxTime minutes
MaxTime == 1
\* the most requests of one cycle (fan-out, match details, wiki page) that fail
MaxFailed == 1
\* the most refreshLiveOnly invocations awaiting their fetch at once
MaxLiveRuns == 1
\* the number of fetchWithRetry invocations followed attempt by attempt
MaxCalls == 2
\* the image proxy is followed for MaxHalfDays times 12 hours
MaxHalfDays == 3
\* the most /api/img handlers awaiting proxyImage at once
MaxImgReqs == 1
\* the most redirects followed for one image (the code sets no limit)
MaxRedirects == 1
\* the most /api/player/:id/heroes handlers awaiting their fetch at once
MaxPlayerReqs == 1
\* the most static-file handlers awaiting fs.readFile at once
MaxFileReqs == 1
\* the player hero cache is followed for MaxQuarterHours times 15 minutes
MaxQuarterHours == 3
\* the most match blocks on the wiki page
MaxBlocks == 2
\* the most team links in one match block
MaxTitles == 2
\* the most poll callbacks of the front end awaiting fetchData at once
MaxPolls == 2
\* the most matches given to groupMatchesIntoSeries
MaxMatches == 3
\* the most requests for a player's heroes the front end awaits at once
MaxHeroReqs == 2

----------------------------------------------------------------------------
(* Values *)

\* JavaScript null / undefined for an optional value; Some(x) is a present value
null == <<>>
Some(x) == <<x>>
Get(o) == o[1]

\* TEAMS, server.js:25-29
TEAMS ==
    [xg |-> [id |-> 8261500, name |-> "Xtreme Gaming", tag |-> "XG"],
     yb |-> [id |-> 9351740, name |-> "Yakult Brothers", tag |-> "YB"],
     vg |-> [id |-> 726228, name |-> "Vici Gaming", tag |-> "VG"]]

teamKeys == DOMAIN TEAMS

\* the four per-team requests of teamPromises, server.js:265-270
TeamEndpoints == {"info", "matches", "players", "heroes"}

\* the three global requests of the fan-out, server.js:275-277
GlobalEndpoints == {"heroStats", "live", "proPlayers"}

\* every fetchWithRetry call issued synchronously by one refreshAllData invocation
SubFetches == ({"global"} \X GlobalEndpoints) \cup (teamKeys \X TeamEndpoints)

\* abstract payloads: a non-empty JSON value, the empty list and the empty object
DATA == "data"
EMPTY_LIST == "[]"
EMPTY_OBJ == "{}"

\* games the /live endpoint may report: radiant and dire team ids
LiveUniverse ==
    { [match_id |-> 1, radiant_team_id |-> 111, dire_team_id |-> 726228],
      [match_id |-> 2, radiant_team_id |-> 111, dire_team_id |-> 222] }

\* what the /live endpoint delivers: no game, or both games
LiveResponses == { {}, LiveUniverse }

----------------------------------------------------------------------------
(* fetchWithRetry, server.js:54-59 *)

\* the default of the parameter retries; no caller passes another value
RETRIES == 3

\* how one fetchJSON attempt ends: a JSON value, the JSON value null, or a
\* rejection (429, unparseable body, network error), server.js:38-52
AttemptOutcomes == {"ok", "null", "fail"}

\* the position of an invocation that has not been made yet
IdleCall ==
    [pc |-> "idle", i |-> 0, attempts |-> 0, failed |-> 0, waits |-> <<>>, result |-> "none"]

\* for (let i = 0; i < retries; i++): the loop test, and the first fetchJSON of the body
EnterLoop(c) ==
    IF c.i < RETRIES
    THEN [c EXCEPT !.pc = "fetching", !.attempts = @ + 1]
    ELSE [c EXCEPT !.pc = "returned", !.result = "null"]

\* if (i === retries - 1) throw err;
IsLastAttemptOffByOne(i) == i = RETRIES
IsLastAttempt(i) == i = RETRIES - 1

\* setTimeout(r, 1000 * (i + 1))
BackoffDelay(i) == 1000 * (i + 1)

\* the await of fetchJSON settles: return on success, throw on the last
\* failure, otherwise start the backoff timer
SettleAttempt(c, out) ==
    IF out # "fail"
    THEN [c EXCEPT !.pc = "returned", !.result = out]
    ELSE IF IsLastAttempt(c.i)
         THEN [c EXCEPT !.pc = "thrown", !.result = "fail", !.failed = @ + 1]
         ELSE [c EXCEPT !.pc = "sleeping", !.failed = @ + 1,
                        !.waits = Append(@, BackoffDelay(c.i))]

\* the backoff timer fires: i++ and the loop test
WakeUp(c) == EnterLoop([c EXCEPT !.i = @ + 1])

\* a whole invocation, given how its successive attempts end
RECURSIVE RunCall(_, _)
RunCall(c, outs) ==
    IF c.pc = "fetching" THEN RunCall(SettleAttempt(c, Head(outs)), Tail(outs))
    ELSE IF c.pc = "sleeping" THEN RunCall(WakeUp(c), outs)
    ELSE c

FetchWithRetry(outs) == RunCall(EnterLoop(IdleCall), outs)

\* what an awaited fetchWithRetry can deliver: "ok", "null" or "fail" (it throws)
RetryResults == { FetchWithRetry(o).result : o \in [1..RETRIES -> AttemptOutcomes] }

CallFetchWithRetry(id) ==
    /\ calls[id].pc = "idle"
    /\ calls' = [calls EXCEPT ![id] = EnterLoop(@)]
    /\ UNCHANGED <<refreshVars, imgVars, frontVars, pureVars, fe>>

FetchJSONSettles(id) ==
    /\ calls[id].pc = "fetching"
    /\ \E out \in AttemptOutcomes : calls' = [calls EXCEPT ![id] = SettleAttempt(@, out)]
    /\ UNCHANGED <<refreshVars, imgVars, frontVars, pureVars, fe>>

BackoffTimerFires(id) ==
    /\ calls[id].pc = "sleeping"
    /\ calls' = [calls EXCEPT ![id] = WakeUp(@)]
    /\ UNCHANGED <<refreshVars, imgVars, frontVars, pureVars, fe>>

----------------------------------------------------------------------------
(* The refresh orchestrator: refreshAllData, server.js:255-315 *)

\* Object.keys(TEAMS), in insertion order
TeamOrder == <<"xg", "yb", "vg">>

\* the JSON value a settled fetchWithRetry delivers
Payload(out) == IF out = "ok" THEN DATA ELSE "null"

\* v || dflt
OrElse(v, dflt) == IF v = "null" THEN dflt ELSE v

\* new Date().toISOString()
ToISOString(t) == <<"iso", t>>

\* how the sub-fetches of one fan-out end: each delivers data or fails after
\* its retries, at most MaxFailed of them failing
FailSets == { S \in SUBSET SubFetches : Cardinality(S) <= MaxFailed }

FanOutOutcomes == { [f \in SubFetches |-> IF f \in S THEN "fail" ELSE "ok"] : S \in FailSets }

\* the sub-fetches whose rejection is caught where they are issued:
\* fetchWithRetry('/live').catch(() => []), fetchWithRetry('/proPlayers').catch(() => [])
Caught == { <<"global", "live">>, <<"global", "proPlayers">> }

\* a position of refreshAllData between line 257 and the finally block
NewCycle ==
    [pc |-> "fanout", pending |-> SubFetches, abn |-> 0,
     teamResults |-> null, heroMap |-> null, live |-> null, proPlayers |-> null,
     rosters |-> null, teams |-> null, liveMatches |-> null, scrapes |-> 0, liveAt |-> null]

\* if (isRefreshing) return;
RefreshGuardMissing(flag) == FALSE
RefreshGuard(flag) == flag

\* isRefreshing = true;
SetRefreshingForgotten == FALSE
SetRefreshing == TRUE

\* refreshAllData() up to its first await: the guard, the flag, and the fan-out
\* of the 15 fetchWithRetry calls
RefreshAllData ==
    IF RefreshGuard(isRefreshing)
    THEN /\ trigger' = "dropped"
         /\ UNCHANGED <<isRefreshing, cycles>>
    ELSE /\ trigger' = "started"
         /\ isRefreshing' = SetRefreshing
         /\ cycles' = Append(cycles, NewCycle)

\* the cycles other than the i-th
Without(cs, i) == [j \in 1..(Len(cs) - 1) |-> IF j < i THEN cs[j] ELSE cs[j + 1]]

\* catch (err) { console.error(...) }: the cache is left alone
CatchLosesCache(cd) == null
CatchKeepsCache(cd) == cd

\* finally { isRefreshing = false; }
FinallyLeavesFlag == TRUE
FinallyFlag == FALSE

\* one teamPromises element: { key, info: info || {}, matches: (matches || []).slice(0, 50), ... }
\* (slice keeps an abstract DATA list and the empty list as they are)
TeamResult(key, o) ==
    [key |-> key,
     info |-> OrElse(Payload(o[<<key, "info">>]), EMPTY_OBJ),
     matches |-> OrElse(Payload(o[<<key, "matches">>]), EMPTY_LIST),
     players |-> OrElse(Payload(o[<<key, "players">>]), EMPTY_LIST),
     heroes |-> OrElse(Payload(o[<<key, "heroes">>]), EMPTY_LIST)]

\* Promise.all rejects when a promise without its own catch rejects
FanOutRejects(o) == \E f \in SubFetches \ Caught : o[f] = "fail"

\* heroMap = {}; (heroStats || []).forEach(h => { heroMap[h.id] = h; })
BuildHeroMap(heroStats) == IF OrElse(heroStats, EMPTY_LIST) = EMPTY_LIST THEN EMPTY_OBJ ELSE DATA

\* ourIds.has(m.radiant_team_id) || ourIds.has(m.dire_team_id)
ourIds == { TEAMS[k].id : k \in teamKeys }
FilterLive(live) ==
    { m \in live : m.radiant_team_id \in ourIds \/ m.dire_team_id \in ourIds }

\* the value of `live` after the fan-out: the response, or [] from the catch,
\* and (live || []) for a null body
LiveValue(out, games) == IF out = "ok" THEN games ELSE {}

\* buildCurrentRosters, server.js:90-134: the loop over teamResults from team
\* number n on, up to the next await (a team without a recent match gets [] and
\* the loop continues) or to the return
RECURSIVE RosterLoop(_, _)
RosterLoop(c, n) ==
    IF n > Len(TeamOrder)
    THEN [c EXCEPT !.pc = "rostersDone", !.pending = {}]
    ELSE LET key == TeamOrder[n] IN
         IF Get(c.teamResults)[key].matches = EMPTY_LIST
         THEN RosterLoop([c EXCEPT !.rosters = Some([Get(@) EXCEPT ![key] = EMPTY_LIST])], n + 1)
         ELSE [c EXCEPT !.pc = "rosters", !.pending = { <<key, "matchDetail">> }]

\* the team whose match detail the cycle awaits
AwaitedTeam(c) == CHOOSE key \in teamKeys : <<key, "matchDetail">> \in c.pending
IndexOf(key) == CHOOSE n \in 1..Len(TeamOrder) : TeamOrder[n] = key

\* lines 288-301: teams, liveMatches, and the call of fetchUpcoming()
Compose(c) ==
    [c EXCEPT !.pc = "upcoming",
              !.pending = { <<"wiki", "Liquipedia:Matches">> },
              !.scrapes = @ + 1,
              !.teams = Some([key \in teamKeys |->
                              [result |-> Get(c.teamResults)[key],
                               roster |-> OrElse(Get(c.rosters)[key], EMPTY_LIST)]]),
              !.liveMatches = Some(FilterLive(Get(c.live)))]

\* after the roster loop returns, refreshAllData runs on to its next await
AfterRosters(c) == IF c.pc = "rostersDone" THEN Compose(c) ELSE c

\* lines 303-307
Snapshot(c, upcoming) ==
    [teams |-> Get(c.teams), heroMap |-> Get(c.heroMap), liveMatches |-> Get(c.liveMatches),
     upcoming |-> upcoming, teamConfig |-> TEAMS,
     lastUpdated |-> ToISOString(now), liveUpdated |-> null]

----------------------------------------------------------------------------
(* Actions of the refresh orchestrator *)

\* server.listen callback, server.js:457-472: the startup call and the two timers
Listen ==
    /\ ~listening
    /\ listening' = TRUE
    /\ RefreshAllData
    /\ UNCHANGED <<cachedData, liveRuns, now, resp, installed, calls, imgVars, frontVars, pureVars, fe>>

\* setInterval(refreshAllData, REFRESH_INTERVAL) fires
TimerRefresh ==
    /\ listening
    /\ RefreshAllData
    /\ UNCHANGED <<listening, cachedData, liveRuns, now, resp, installed, calls, imgVars, frontVars, pureVars, fe>>

\* the process runs until a rejection is left unhandled (Node.js 15 and later
\* end the process on an unhandled rejection; the README asks for 18+)
Running == ~unhandled

ApiRefreshAnswersOnlyWhenStarted ==
    /\ listening
    /\ Running
    /\ RefreshAllData
    /\ resp' = IF isRefreshing THEN resp
               ELSE Some([route |-> "/api/refresh", status |-> 200,
                          body |-> [status |-> "refresh started"]])
    /\ UNCHANGED <<listening, cachedData, liveRuns, now, installed, calls, imgVars, frontVars, pureVars, fe>>

\* GET /api/refresh, server.js:433-439
ApiRefresh ==
    /\ listening
    /\ Running
    /\ RefreshAllData
    /\ resp' = Some([route |-> "/api/refresh", status |-> 200,
                     body |-> [status |-> "refresh started"]])
    /\ UNCHANGED <<listening, cachedData, liveRuns, now, installed, calls, imgVars, frontVars, pureVars, fe>>

\* GET /api/data, server.js:396-401
ApiData ==
    /\ listening
    /\ Running
    /\ resp' = Some([route |-> "/api/data",
                     status |-> IF cachedData # null THEN 200 ELSE 503,
                     body |-> IF cachedData # null THEN [snapshot |-> Get(cachedData)]
                              ELSE [error |-> "Data is loading..."]])
    /\ UNCHANGED <<listening, cachedData, isRefreshing, cycles, liveRuns, now, trigger, installed, calls, imgVars, frontVars, pureVars, fe>>

\* the cycle's state once the fan-out of line 274 has resolved with outcomes o
\* and, for /live, the games reported; lines 274-286 up to the first await of
\* buildCurrentRosters
AfterFanOut(c, o, games) ==
    AfterRosters(RosterLoop(
        [c EXCEPT !.abn = Cardinality({ f \in SubFetches : o[f] # "ok" }),
                  !.teamResults = Some([key \in teamKeys |-> TeamResult(key, o)]),
                  !.heroMap = Some(BuildHeroMap(Payload(o[<<"global", "heroStats">>]))),
                  !.live = Some(LiveValue(o[<<"global", "live">>], games)),
                  !.liveAt = Some(now),
                  !.proPlayers = Some(OrElse(Payload(o[<<"global", "proPlayers">>]), EMPTY_LIST)),
                  !.rosters = Some([key \in teamKeys |-> "null"])], 1))

\* the await of line 274 settles.  (Promise.all rejects at the first rejection;
\* the other requests of the fan-out run on, but nothing reads their results.)
FanOutSettlesWith(i, o, games) ==
    /\ cycles[i].pc = "fanout"
    /\ IF FanOutRejects(o)
       THEN /\ cachedData' = CatchKeepsCache(cachedData)
            /\ isRefreshing' = FinallyFlag
            /\ cycles' = Without(cycles, i)
       ELSE /\ cycles' = [cycles EXCEPT ![i] = AfterFanOut(@, o, games)]
            /\ UNCHANGED <<cachedData, isRefreshing>>
    /\ UNCHANGED <<listening, liveRuns, now, resp, trigger, installed, calls, imgVars, frontVars, pureVars, fe>>

FanOutSettles(i) ==
    \E o \in FanOutOutcomes, games \in LiveResponses : FanOutSettlesWith(i, o, games)

\* the roster of a team from the awaited match detail: the players of the
\* team's side, or [] when the detail is null or the fetch failed (caught)
RosterOf(out) == IF out = "ok" THEN DATA ELSE EMPTY_LIST

\* the await of line 105 settles, and the loop runs on
RosterSettlesWith(i, out) ==
    /\ cycles[i].pc = "rosters"
    /\ LET c == cycles[i]
           key == AwaitedTeam(c)
           c1 == [c EXCEPT !.rosters = Some([Get(@) EXCEPT ![key] = RosterOf(out)]),
                           !.abn = IF out = "ok" THEN @ ELSE @ + 1]
       IN cycles' = [cycles EXCEPT ![i] = AfterRosters(RosterLoop(c1, IndexOf(key) + 1))]
    /\ UNCHANGED <<listening, cachedData, isRefreshing, liveRuns, now, resp, trigger, installed, calls, imgVars, frontVars, pureVars, fe>>

RosterSettles(i) ==
    \E out \in RetryResults :
        /\ out # "ok" => cycles[i].abn < MaxFailed
        /\ RosterSettlesWith(i, out)

\* how the one httpsGet of fetchUpcoming ends: a page of matches, a non-200
\* status or a network error (httpsGet rejects), a body JSON.parse rejects, or
\* a page whose html is shorter than 1000 characters
ScrapeOutcomes == {"ok", "status", "network", "json", "short"}

UpcomingRejects(out) == IF out = "ok" THEN DATA ELSE "null"

\* what fetchUpcoming() resolves to: the scraped list; [] from the early
\* return of line 148 or after the catch of line 246
UpcomingOf(out) == IF out = "ok" THEN DATA ELSE EMPTY_LIST

\* the await of line 301 settles: the snapshot is installed, then finally
UpcomingSettlesWith(i, out) ==
    /\ cycles[i].pc = "upcoming"
    /\ cachedData' = Some(Snapshot(cycles[i], UpcomingOf(out)))
    /\ installed' = TRUE
    /\ isRefreshing' = FinallyFlag
    /\ cycles' = Without(cycles, i)
    /\ UNCHANGED <<listening, liveRuns, now, resp, trigger, calls, imgVars, frontVars, pureVars, fe>>

UpcomingSettles(i) ==
    \E out \in ScrapeOutcomes :
        /\ out # "ok" => cycles[i].abn < MaxFailed
        /\ UpcomingSettlesWith(i, out)

----------------------------------------------------------------------------
(* refreshLiveOnly, server.js:317-329 *)

\* setInterval(refreshLiveOnly, LIVE_REFRESH_INTERVAL) fires: the call up to its await
TimerLive ==
    /\ listening
    /\ liveRuns < MaxLiveRuns
    /\ liveRuns' = liveRuns + 1
    /\ UNCHANGED <<listening, cachedData, isRefreshing, cycles, now, resp, trigger, installed, calls, imgVars, frontVars, pureVars, fe>>

\* if (cachedData) { cachedData.liveMatches = ...; cachedData.liveUpdated = ...; }
LiveUpdateStampsSnapshot(cd, liveMatches, t) ==
    IF cd # null
    THEN Some([Get(cd) EXCEPT !.liveMatches = liveMatches, !.liveUpdated = Some(ToISOString(t)),
                              !.lastUpdated = ToISOString(t)])
    ELSE cd
LiveUpdateWithoutNullTest(cd, liveMatches, t) ==
    Some([teams |-> IF cd # null THEN Get(cd).teams ELSE null,
          heroMap |-> IF cd # null THEN Get(cd).heroMap ELSE "null",
          liveMatches |-> liveMatches,
          upcoming |-> IF cd # null THEN Get(cd).upcoming ELSE "null",
          teamConfig |-> TEAMS,
          lastUpdated |-> IF cd # null THEN Get(cd).lastUpdated ELSE null,
          liveUpdated |-> Some(ToISOString(t))])
LiveUpdate(cd, liveMatches, t) ==
    IF cd # null
    THEN Some([Get(cd) EXCEPT !.liveMatches = liveMatches, !.liveUpdated = Some(ToISOString(t))])
    ELSE cd

\* the await of line 319 settles
LiveSettlesWith(out, games) ==
    /\ liveRuns > 0
    /\ liveRuns' = liveRuns - 1
    /\ cachedData' = LiveUpdate(cachedData, FilterLive(LiveValue(out, games)), now)
    /\ UNCHANGED <<listening, isRefreshing, cycles, now, resp, trigger, installed, calls, imgVars, frontVars, pureVars, fe>>

LiveSettles == \E out \in RetryResults, games \in LiveResponses : LiveSettlesWith(out, games)

\* a minute passes
AdvanceTime ==
    /\ now < MaxTime * 60000
    /\ now' = now + 60000
    /\ UNCHANGED <<listening, cachedData, isRefreshing, cycles, liveRuns, resp, trigger, installed, calls, imgVars, frontVars, pureVars, fe>>

----------------------------------------------------------------------------
(* The image proxy: proxyImage, server.js:353-380, and the /api/img handler,
   server.js:417-431.  A url is a sequence of pieces of text. *)

\* 'https://liquipedia.net/', the prefix the handler tests for
TRUSTED == "https://liquipedia.net/"
\* the same text percent-encoded, as encodeURIComponent writes it
TRUSTED_ENC == "https%3A%2F%2Fliquipedia.net%2F"
\* the start of a url of another origin
FOREIGN == "https://other.example/"
\* a malformed escape sequence, such as a lone %
BAD_ESCAPE == "%"

\* the text after '?url=' in req.url: req.url.split('?url=')[1], null when absent
RawUrls ==
    { <<>>,
      <<TRUSTED, "a">>, <<TRUSTED_ENC, "%61">>, <<TRUSTED, "b">>,
      <<FOREIGN, "a">>,
      <<TRUSTED, BAD_ESCAPE>>, <<BAD_ESCAPE>> }
ImgQueries == {null} \cup { Some(r) : r \in RawUrls }

\* the urls the proxy or a Location header can name
Urls == { <<TRUSTED, "a">>, <<TRUSTED, "b">>, <<FOREIGN, "a">> }

\* decodeURIComponent on one piece
DecodePiece(p) ==
    IF p = TRUSTED_ENC THEN TRUSTED
    ELSE IF p = "%61" THEN "a"
    ELSE p

\* decodeURIComponent: throws URIError on a malformed escape sequence
DecodeThrows(raw) == \E k \in 1..Len(raw) : raw[k] = BAD_ESCAPE
DecodeURIComponent(raw) == [k \in 1..Len(raw) |-> DecodePiece(raw[k])]

\* s.startsWith('https://liquipedia.net/')
StartsWithTrusted(u) == Len(u) >= 1 /\ u[1] = TRUSTED

\* 24 * 60 * 60 * 1000
IMG_TTL == 24 * 60 * 60 * 1000

\* cached && Date.now() - cached.timestamp < 24 * 60 * 60 * 1000
ImgCacheHit(cache, u, t) == cache[u] # null /\ t - Get(cache[u]).timestamp < IMG_TTL

\* the bytes the origin serves for url u
BytesOf(u) == <<"bytes", u>>

\* how the origin answers one https.get of proxyImage: 200 with a body and an
\* optional content-type, a 3xx with a Location, or anything else (another
\* status, a 3xx without Location, a network or stream error)
ImgAnswers ==
    { [kind |-> "ok", contentType |-> ct, location |-> null] : ct \in {null, Some("image/svg+xml")} }
    \cup { [kind |-> "redirect", contentType |-> null, location |-> Some(l)] : l \in Urls }
    \cup { [kind |-> "error", contentType |-> null, location |-> null] }

\* res.writeHead(200, { 'Content-Type': img.contentType, ... }); res.end(img.data)
ImgResponse(img) ==
    Some([route |-> "/api/img", status |-> 200,
          body |-> [bytes |-> img.data, contentType |-> img.contentType]])

ImgBadRequest == Some([route |-> "/api/img", status |-> 400, body |-> [text |-> "Bad request"]])
ImgFetchFailed == Some([route |-> "/api/img", status |-> 502, body |-> [text |-> "Image fetch failed"]])

\* proxyImage(u) called for the handler that was asked for src, after `hops`
\* redirects: a fresh cache entry resolves at once and the handler answers;
\* otherwise https.get(u) is issued and the handler keeps waiting
ProxyImage(reqs, src, u, hops) ==
    IF ImgCacheHit(imgCache, u, now)
    THEN /\ resp' = ImgResponse(Get(imgCache[u]))
         /\ imgReqs' = reqs
         /\ UNCHANGED <<imgCache, imgOutbound, imgServed>>
    ELSE /\ imgReqs' = Append(reqs, [src |-> src, cur |-> u, hops |-> hops])
         /\ imgOutbound' = imgOutbound \cup {u}
         /\ UNCHANGED <<resp, imgCache, imgServed>>

\* GET /api/img with the given text after '?url=' (null: no such text)
ApiImg(q) ==
    /\ listening
    /\ Running
    /\ Len(imgReqs) < MaxImgReqs
    /\ IF q = null \/ q = Some(<<>>)
       THEN /\ resp' = ImgBadRequest
            /\ UNCHANGED imgVars
       ELSE IF DecodeThrows(Get(q))
       THEN /\ unhandled' = TRUE
            /\ UNCHANGED <<resp, imgCache, imgReqs, imgOutbound, imgServed>>
       ELSE IF ~StartsWithTrusted(DecodeURIComponent(Get(q)))
       THEN /\ resp' = ImgBadRequest
            /\ UNCHANGED imgVars
       ELSE /\ ProxyImage(imgReqs, DecodeURIComponent(Get(q)), DecodeURIComponent(Get(q)), 0)
            /\ UNCHANGED unhandled
    /\ UNCHANGED <<listening, cachedData, isRefreshing, cycles, liveRuns, now, trigger, installed, calls,
                   frontVars, pureVars, fe>>

\* the key under which the fetched image is stored: imgCache[imageUrl] = result,
\* imageUrl being the argument of the proxyImage call that issued the request
ImgCacheKey(r) == r.cur

\* the origin answers the https.get of the i-th waiting handler
ImgAnswered(i, ans) ==
    /\ Running
    /\ i \in 1..Len(imgReqs)
    /\ LET r == imgReqs[i]
           rest == Without(imgReqs, i)
       IN IF ans.kind = "redirect"
          THEN /\ r.hops < MaxRedirects
               /\ ProxyImage(rest, r.src, Get(ans.location), r.hops + 1)
          ELSE IF ans.kind = "ok"
          THEN LET result == [data |-> BytesOf(r.cur),
                              contentType |-> IF ans.contentType # null
                                              THEN Get(ans.contentType) ELSE "image/png",
                              timestamp |-> now]
               IN /\ imgCache' = [imgCache EXCEPT ![ImgCacheKey(r)] = Some(result)]
                  /\ resp' = ImgResponse(result)
                  /\ imgServed' = [imgServed EXCEPT ![r.src] = Some(now)]
                  /\ imgReqs' = rest
                  /\ UNCHANGED imgOutbound
          ELSE /\ resp' = ImgFetchFailed
               /\ imgReqs' = rest
               /\ UNCHANGED <<imgCache, imgOutbound, imgServed>>
    /\ UNCHANGED <<listening, cachedData, isRefreshing, cycles, liveRuns, now, trigger, installed,
                   calls, unhandled, frontVars, pureVars, fe>>

\* twelve hours pass
AdvanceHalfDay ==
    /\ Running
    /\ now < MaxHalfDays * (12 * 60 * 60 * 1000)
    /\ now' = now + 12 * 60 * 60 * 1000
    /\ UNCHANGED <<listening, cachedData, isRefreshing, cycles, liveRuns, resp, trigger, installed,
                   calls, imgVars, frontVars, pureVars, fe>>

----------------------------------------------------------------------------
(* Player heroes: getPlayerHeroes, server.js:334-346, and the
   /api/player/:id/heroes handler, server.js:403-415 *)

\* the account ids requested (the route takes any run of digits)
PlayerIds == {101, 202}

\* 30 * 60 * 1000
PLAYER_TTL == 30 * 60 * 1000

\* what /players/:id/heroes?game_mode=2 may return: rows in upstream order
HeroRows ==
    { <<>>,
      << [hero_id |-> 1, games |-> 2, win |-> 1, last_played |-> 7],
         [hero_id |-> 2, games |-> 0, win |-> 0, last_played |-> 0] >> }

\* how the fetchWithRetry of line 338 ends: a list, JSON null, or a rejection
PlayerFetches ==
    { [out |-> "ok", rows |-> rows] : rows \in HeroRows }
    \cup { [out |-> "null", rows |-> <<>>], [out |-> "fail", rows |-> <<>>] }

\* rows.filter(h => h.games > 0)
RECURSIVE PlayedOnly(_)
PlayedOnly(rows) ==
    IF rows = <<>> THEN <<>>
    ELSE IF Head(rows).games > 0 THEN <<Head(rows)>> \o PlayedOnly(Tail(rows))
    ELSE PlayedOnly(Tail(rows))

\* rows.slice(0, 10)
Slice10(rows) == SubSeq(rows, 1, IF Len(rows) < 10 THEN Len(rows) ELSE 10)

\* (data || []).filter(...).slice(0, 10).map(h => ({ hero_id, games, win }))
TopHeroes(f) ==
    LET rows == IF f.out = "null" THEN <<>> ELSE f.rows
        kept == Slice10(PlayedOnly(rows))
    IN [k \in 1..Len(kept) |-> [hero_id |-> kept[k].hero_id, games |-> kept[k].games, win |-> kept[k].win]]

PlayerCacheHitInclusive(id) ==
    playerHeroCache[id] # null /\ now - Get(playerHeroCache[id]).timestamp <= PLAYER_TTL

\* cached && Date.now() - cached.timestamp < 30 * 60 * 1000
PlayerCacheHit(id) ==
    playerHeroCache[id] # null /\ now - Get(playerHeroCache[id]).timestamp < PLAYER_TTL

PlayerResponse(heroes) == Some([route |-> "/api/player", status |-> 200, body |-> [heroes |-> heroes]])
PlayerError == Some([route |-> "/api/player", status |-> 500, body |-> [error |-> "err.message"]])

\* GET /api/player/<id>/heroes up to the await of line 338
ApiPlayer(id) ==
    /\ listening
    /\ Running
    /\ Len(playerReqs) < MaxPlayerReqs
    /\ IF PlayerCacheHit(id)
       THEN /\ resp' = PlayerResponse(Get(playerHeroCache[id]).data)
            /\ UNCHANGED playerReqs
       ELSE /\ playerReqs' = Append(playerReqs, id)
            /\ UNCHANGED resp
    /\ UNCHANGED <<listening, cachedData, isRefreshing, cycles, liveRuns, now, trigger, installed, calls,
                   imgVars, playerHeroCache, fileReqs, pureVars, fe>>

\* the fetch of the i-th waiting handler ends: lines 339-345 and 408-409, or
\* the catch of lines 410-413
PlayerSettles(i, f) ==
    /\ Running
    /\ i \in 1..Len(playerReqs)
    /\ IF f.out = "fail"
       THEN /\ resp' = PlayerError
            /\ UNCHANGED playerHeroCache
       ELSE /\ playerHeroCache' = [playerHeroCache EXCEPT
                                     ![playerReqs[i]] = Some([data |-> TopHeroes(f), timestamp |-> now])]
            /\ resp' = PlayerResponse(TopHeroes(f))
    /\ playerReqs' = Without(playerReqs, i)
    /\ UNCHANGED <<listening, cachedData, isRefreshing, cycles, liveRuns, now, trigger, installed, calls,
                   imgVars, fileReqs, pureVars, fe>>

\* fifteen minutes pass
AdvanceQuarterHour ==
    /\ now < MaxQuarterHours * (15 * 60 * 1000)
    /\ now' = now + 15 * 60 * 1000
    /\ UNCHANGED <<listening, cachedData, isRefreshing, cycles, liveRuns, resp, trigger, installed,
                   calls, imgVars, frontVars, pureVars, fe>>

----------------------------------------------------------------------------
(* Static files, server.js:441-451.  A path is a sequence of segments. *)

\* __dirname
DIRNAME == <<"app">>

\* what the disk holds: the served directory and one file beside it
Disk ==
    ( <<"app", "index.html">> :> "index" ) @@
    ( <<"app", "app.js">> :> "script" ) @@
    ( <<"secret.env">> :> "secret" )

\* request paths that reach the static branch ("/" is the empty sequence)
StaticUrls ==
    { <<>>, <<"index.html">>, <<"app.js">>, <<"missing.css">>, <<"..", "secret.env">>,
      <<"api", "player", "abc", "heroes">> }

\* path.join normalises its result: a ".." segment removes the one before it
RECURSIVE Normalize(_, _)
Normalize(done, todo) ==
    IF todo = <<>> THEN done
    ELSE IF Head(todo) = ".."
         THEN Normalize(IF done = <<>> THEN done ELSE SubSeq(done, 1, Len(done) - 1), Tail(todo))
    ELSE Normalize(Append(done, Head(todo)), Tail(todo))

PathJoin(dir, p) == Normalize(<<>>, dir \o p)

\* path.extname: the extension of the last segment
ExtName(p) ==
    IF p = <<>> THEN ""
    ELSE CASE p[Len(p)] = "index.html" -> ".html"
           [] p[Len(p)] = "app.js" -> ".js"
           [] p[Len(p)] = "missing.css" -> ".css"
           [] p[Len(p)] = "secret.env" -> ".env"
           [] OTHER -> ""

\* MIME[ext] || 'application/octet-stream'
MIME(ext) ==
    CASE ext = ".html" -> "text/html; charset=utf-8"
      [] ext = ".css" -> "text/css; charset=utf-8"
      [] ext = ".js" -> "application/javascript; charset=utf-8"
      [] OTHER -> "application/octet-stream"

NotFound == Some([route |-> "static", status |-> 404, body |-> [text |-> "Not found"]])

\* a request that matches no API route, up to the call of fs.readFile
ApiStatic(u) ==
    /\ listening
    /\ Running
    /\ Len(fileReqs) < MaxFileReqs
    /\ LET filePath == PathJoin(DIRNAME, IF u = <<>> THEN <<"index.html">> ELSE u)
       IN fileReqs' = Append(fileReqs, [filePath |-> filePath, contentType |-> MIME(ExtName(filePath))])
    /\ UNCHANGED <<refreshVars, calls, imgVars, playerHeroCache, playerReqs, pureVars, fe>>

\* the callback of fs.readFile for the i-th waiting handler
FileRead(i) ==
    /\ Running
    /\ i \in 1..Len(fileReqs)
    /\ resp' = IF fileReqs[i].filePath \in DOMAIN Disk
               THEN Some([route |-> "static", status |-> 200,
                          body |-> [content |-> Disk[fileReqs[i].filePath],
                                    contentType |-> fileReqs[i].contentType]])
               ELSE NotFound
    /\ fileReqs' = Without(fileReqs, i)
    /\ UNCHANGED <<listening, cachedData, isRefreshing, cycles, liveRuns, now, trigger, installed, calls,
                   imgVars, playerHeroCache, playerReqs, pureVars, fe>>

----------------------------------------------------------------------------
(* The parser of fetchUpcoming, server.js:150-242.  Text is a sequence of
   characters, so that includes, toLowerCase, trim and split do what they do
   in the code. *)

\* the characters of the names and tags of TEAMS
Chars ==
    ("Xtreme Gaming" :> <<"X", "t", "r", "e", "m", "e", " ", "G", "a", "m", "i", "n", "g">>) @@
    ("XG" :> <<"X", "G">>) @@
    ("Yakult Brothers" :> <<"Y", "a", "k", "u", "l", "t", " ", "B", "r", "o", "t", "h", "e", "r", "s">>) @@
    ("YB" :> <<"Y", "B">>) @@
    ("Vici Gaming" :> <<"V", "i", "c", "i", " ", "G", "a", "m", "i", "n", "g">>) @@
    ("VG" :> <<"V", "G">>)

\* Date.now() when the process starts, in milliseconds; the variable now
\* counts from there
START_MS == 10000000

DateNow == START_MS + now

\* a data-timestamp above 8.64e12 seconds, outside the range of Date (the
\* number itself exceeds the integers of the model checker)
BEYOND_DATE == 2000000

\* the titles of the team links a match block may hold
Titles ==
    { <<"X", "t", "r", "e", "m", "e", " ", "G", "a", "m", "i", "n", "g">>,
      <<"T", "e", "a", "m", " ", "S", "p", "i", "r", "i", "t">>,
      <<" ", "V", "G">>,
      <<"A", "/", "B">> }

\* the data-timestamp of a block: absent, 0, more than an hour ago, exactly an
\* hour ago, ahead, or beyond the range of Date
BlockTimestamps == {null, Some(0), Some(5000), Some(6400), Some(20000), Some(BEYOND_DATE)}

RECURSIVE SeqsUpTo(_, _)
SeqsUpTo(S, n) ==
    IF n = 0 THEN { <<>> }
    ELSE SeqsUpTo(S, n - 1) \cup { Append(q, x) : q \in { r \in SeqsUpTo(S, n - 1) : Len(r) = n - 1 }, x \in S }

\* a match block: the titles its team links carry, in order, and its data-timestamp
Blocks == [titles : SeqsUpTo(Titles, MaxTitles), timestamp : BlockTimestamps]

\* the match blocks of html.split(/<div class="match-info">/), from index 1 on
WikiPages(n) == SeqsUpTo(Blocks, n)

\* String.prototype.toLowerCase, on the letters that occur
LowerChar(c) ==
    CASE c = "A" -> "a" [] c = "B" -> "b" [] c = "G" -> "g" [] c = "S" -> "s"
      [] c = "T" -> "t" [] c = "V" -> "v" [] c = "X" -> "x" [] c = "Y" -> "y" [] OTHER -> c
ToLowerCase(t) == [k \in 1..Len(t) |-> LowerChar(t[k])]

\* a.includes(b)
Includes(a, b) == \E k \in 1..(Len(a) - Len(b) + 1) : SubSeq(a, k, k + Len(b) - 1) = b

\* String.prototype.trim
RECURSIVE TrimLeft(_)
TrimLeft(t) == IF t # <<>> /\ Head(t) = " " THEN TrimLeft(Tail(t)) ELSE t
RECURSIVE TrimRight(_)
TrimRight(t) == IF t # <<>> /\ t[Len(t)] = " " THEN TrimRight(SubSeq(t, 1, Len(t) - 1)) ELSE t
Trim(t) == TrimRight(TrimLeft(t))

\* name.split(' ')[0]
RECURSIVE FirstWord(_)
FirstWord(t) == IF t = <<>> \/ Head(t) = " " THEN <<>> ELSE <<Head(t)>> \o FirstWord(Tail(t))

\* Object.entries(teamLookup), in insertion order: for every team its name, its
\* tag and the first word of its name, all in lower case
RECURSIVE TeamLookup(_)
TeamLookup(n) ==
    IF n > Len(TeamOrder) THEN <<>>
    ELSE LET key == TeamOrder[n]
             name == Chars[TEAMS[key].name]
             tag == Chars[TEAMS[key].tag]
         IN << [pattern |-> ToLowerCase(name), key |-> key],
               [pattern |-> ToLowerCase(tag), key |-> key],
               [pattern |-> ToLowerCase(FirstWord(name)), key |-> key] >> \o TeamLookup(n + 1)

teamLookup == TeamLookup(1)

\* the while loop of lines 167-178: the titles kept, without repetition, in
\* order of first occurrence
RECURSIVE TeamNames(_, _)
TeamNames(titles, kept) ==
    IF titles = <<>> THEN kept
    ELSE LET title == Trim(Head(titles))
             skip == \/ Includes(title, <<"/">>) \/ Includes(title, <<"#">>)
                     \/ ~(Len(title) >= 2 /\ Len(title) < 40)
                     \/ \E k \in 1..Len(kept) : kept[k] = title
         IN TeamNames(Tail(titles), IF skip THEN kept ELSE Append(kept, title))

\* lines 185-189: the key of the first lookup entry that the name contains or
\* is contained in; null when there is none
RECURSIVE LookupKey(_, _)
LookupKey(lower, entries) ==
    IF entries = <<>> THEN null
    ELSE IF Includes(lower, Head(entries).pattern) \/ Includes(Head(entries).pattern, lower)
         THEN Some(Head(entries).key)
    ELSE LookupKey(lower, Tail(entries))

\* lines 183-191: the first name that yields a key decides
RECURSIVE OurKey(_)
OurKey(teamNames) ==
    IF teamNames = <<>> THEN null
    ELSE IF LookupKey(ToLowerCase(Head(teamNames)), teamLookup) # null
         THEN LookupKey(ToLowerCase(Head(teamNames)), teamLookup)
    ELSE OurKey(Tail(teamNames))

\* if (timestamp && timestamp < Date.now() / 1000 - 3600) continue;
\* a timestamp of 0 is falsy
TooOld(timestamp, t) ==
    timestamp # null /\ Get(timestamp) # 0 /\ Get(timestamp) * 1000 < t - 3600000

\* new Date(timestamp * 1000).toISOString() throws RangeError outside the range of Date
DateThrows(timestamp) == timestamp # null /\ Get(timestamp) = BEYOND_DATE

\* timestamp ? new Date(timestamp * 1000).toISOString() : null
DateStr(timestamp) ==
    IF timestamp # null /\ Get(timestamp) # 0 THEN Some(ToISOString(Get(timestamp) * 1000)) ELSE null

\* lines 222-224: the first name that contains neither our name nor our tag,
\* else the second name, else 'TBD'
IsOurName(key, t) ==
    \/ Includes(ToLowerCase(t), ToLowerCase(Chars[TEAMS[key].name]))
    \/ Includes(ToLowerCase(t), ToLowerCase(Chars[TEAMS[key].tag]))
Opponent(key, teamNames) ==
    IF \E k \in 1..Len(teamNames) : ~IsOurName(key, teamNames[k])
    THEN teamNames[CHOOSE k \in 1..Len(teamNames) :
                     /\ ~IsOurName(key, teamNames[k])
                     /\ \A j \in 1..(k - 1) : IsOurName(key, teamNames[j])]
    ELSE IF Len(teamNames) >= 2 THEN teamNames[2]
    ELSE <<"T", "B", "D">>

\* upcoming.sort((a, b) => (a.timestamp || 0) - (b.timestamp || 0)): a stable sort
SortKey(e) == IF e.timestamp = null THEN 0 ELSE Get(e.timestamp)
RECURSIVE InsertSorted(_, _)
InsertSorted(sorted, e) ==
    IF sorted = <<>> THEN <<e>>
    ELSE IF SortKey(Head(sorted)) <= SortKey(e) THEN <<Head(sorted)>> \o InsertSorted(Tail(sorted), e)
    ELSE <<e>> \o sorted
RECURSIVE SortByTimestamp(_)
SortByTimestamp(list) ==
    IF list = <<>> THEN <<>>
    ELSE InsertSorted(SortByTimestamp(SubSeq(list, 1, Len(list) - 1)), list[Len(list)])

\* the loop of lines 162-238 from block i on, then the sort; an exception
\* thrown inside the loop goes to the catch of line 246, and line 249 returns
\* what has been pushed so far.  block is the index of the block an entry was
\* made from (not a field of the entry in the code).
RECURSIVE ParseBlocks(_, _, _, _)
ParseBlocks(page, i, upcoming, t) ==
    IF i > Len(page) THEN SortByTimestamp(upcoming)
    ELSE LET teamNames == TeamNames(page[i].titles, <<>>)
             ourKey == OurKey(teamNames)
             timestamp == page[i].timestamp
         IN IF Len(teamNames) < 2 THEN ParseBlocks(page, i + 1, upcoming, t)
            ELSE IF ourKey = null THEN ParseBlocks(page, i + 1, upcoming, t)
            ELSE IF TooOld(timestamp, t) THEN ParseBlocks(page, i + 1, upcoming, t)
            ELSE IF DateThrows(timestamp) THEN upcoming
            ELSE ParseBlocks(page, i + 1,
                             Append(upcoming,
                                    [teamKey |-> Get(ourKey), teamTag |-> TEAMS[Get(ourKey)].tag,
                                     opponent |-> Opponent(Get(ourKey), teamNames),
                                     timestamp |-> timestamp, dateStr |-> DateStr(timestamp),
                                     block |-> i]),
                             t)

\* fetchUpcoming on a page that passed the length test of line 148
ParseUpcoming(page) ==
    /\ scraped = null
    /\ wikiPage' = page
    /\ scraped' = Some(ParseBlocks(page, 1, <<>>, DateNow))
    /\ UNCHANGED <<refreshVars, calls, imgVars, frontVars, fe, matchesIn, seriesOut>>

----------------------------------------------------------------------------
(* The front end, app.js: fetchData (23-32), renderCurrentView (554-562),
   startPolling (570-584) and the DOMContentLoaded handler (589-613) *)

\* the values of lastUpdated the server may send
LastUpdatedValues == {"t1", "t2"}

\* how fetchData ends: the fetch or res.json() rejects, the body carries an
\* error (the 503 of /api/data), or the body is a snapshot
DataReplies ==
    { [kind |-> "network", lastUpdated |-> "null", live |-> 0],
      [kind |-> "error", lastUpdated |-> "null", live |-> 0] }
    \cup { [kind |-> "ok", lastUpdated |-> lu, live |-> l] : lu \in LastUpdatedValues, l \in {0, 1} }

\* the page before DOMContentLoaded: the globals of lines 11-17
InitialPage ==
    [load |-> "idle", n |-> 0, attempts |-> 0, waits |-> <<>>,
     overlay |-> FALSE, errorBox |-> FALSE, waitingText |-> FALSE,
     lastUpdated |-> "null", lastRenderedHash |-> "", liveMatches |-> 0,
     pollInterval |-> FALSE, timers |-> 0, polls |-> <<>>,
     ran |-> {},
     playerHeroCache |-> [id \in PlayerIds |-> null],
     open |-> [id \in PlayerIds |-> FALSE],
     heroView |-> [id \in PlayerIds |-> "empty"],
     heroReqs |-> <<>>]

\* lines 27-31 of fetchData, after a body without error
StoreData(p, r) == [p EXCEPT !.lastUpdated = r.lastUpdated, !.liveMatches = r.live]

\* renderCurrentView: the view, renderLive(), lastRenderedHash = lastUpdated
RenderCurrentView(p) ==
    [p EXCEPT !.lastRenderedHash = p.lastUpdated]

\* startPolling: if (pollInterval) clearInterval(pollInterval); pollInterval = setInterval(...)
StartPolling(p) ==
    [p EXCEPT !.timers = (IF p.pollInterval THEN @ - 1 ELSE @) + 1, !.pollInterval = TRUE]

\* the limit of tryLoad: if (n < 10)
MayRetryOnceMore(n) == n <= 10
MayRetry(n) == n < 10

\* DOMContentLoaded: showLoading() and tryLoad(0) up to its await
DomContentLoaded ==
    /\ fe.load = "idle"
    /\ fe' = [fe EXCEPT !.overlay = TRUE, !.load = "fetching", !.n = 0, !.attempts = 1, !.ran = {}]
    /\ UNCHANGED <<refreshVars, calls, imgVars, frontVars, pureVars>>

\* the fetchData awaited by tryLoad(n) settles
LoadSettles(r) ==
    /\ fe.load = "fetching"
    /\ fe' = IF r.kind = "ok"
             THEN [StartPolling(RenderCurrentView(StoreData([fe EXCEPT !.overlay = FALSE], r)))
                     EXCEPT !.load = "done", !.ran = {"hideLoading", "renderCurrentView", "startPolling"}]
             ELSE IF MayRetry(fe.n)
             THEN [fe EXCEPT !.load = "sleeping", !.waitingText = TRUE, !.waits = Append(@, 2000),
                             !.ran = {}]
             ELSE [fe EXCEPT !.load = "gaveUp", !.overlay = FALSE, !.errorBox = TRUE, !.ran = {"hideLoading"}]
    /\ UNCHANGED <<refreshVars, calls, imgVars, frontVars, pureVars>>

\* setTimeout(() => tryLoad(n + 1), 2000) fires
LoadTimerFires ==
    /\ fe.load = "sleeping"
    /\ fe' = [fe EXCEPT !.load = "fetching", !.n = @ + 1, !.attempts = @ + 1, !.ran = {}]
    /\ UNCHANGED <<refreshVars, calls, imgVars, frontVars, pureVars>>

\* window hashchange: renderCurrentView
HashChange ==
    /\ fe.load # "idle"
    /\ fe' = [RenderCurrentView(fe) EXCEPT !.ran = {"renderCurrentView"}]
    /\ UNCHANGED <<refreshVars, calls, imgVars, frontVars, pureVars>>

\* the interval of startPolling fires: const prev = lastUpdated; fetchData() up to its await
PollTick ==
    /\ fe.timers > 0
    /\ Len(fe.polls) < MaxPolls
    /\ fe' = [fe EXCEPT !.polls = Append(@, [prev |-> fe.lastUpdated]), !.ran = {}]
    /\ UNCHANGED <<refreshVars, calls, imgVars, frontVars, pureVars>>

\* lastUpdated !== prev && lastUpdated !== lastRenderedHash
NeedsFullRenderIgnoringHash(lu, prev, hash) == lu # prev
NeedsFullRender(lu, prev, hash) == lu # prev /\ lu # hash

\* the fetchData awaited by the i-th poll callback settles: lines 575-578, or
\* the empty catch of line 579
PollSettles(i, r) ==
    /\ i \in 1..Len(fe.polls)
    /\ LET rest == [fe EXCEPT !.polls = Without(fe.polls, i)]
           got == StoreData(rest, r)
       IN fe' = IF r.kind # "ok" THEN [rest EXCEPT !.ran = {}]
                ELSE IF NeedsFullRender(got.lastUpdated, fe.polls[i].prev, got.lastRenderedHash)
                THEN [RenderCurrentView(got) EXCEPT !.ran = {"renderLive", "renderCurrentView"}]
                ELSE [got EXCEPT !.ran = {"renderLive", "renderTimestamp"}]
    /\ UNCHANGED <<refreshVars, calls, imgVars, frontVars, pureVars>>

----------------------------------------------------------------------------
(* The player rows of the front end, app.js: playerHeroCache (18),
   togglePlayerHeroes (189-219), renderPlayerHeroes (221-239) *)

\* a parsed JSON body: an array with its items, or an object
JsonArray(items) == [type |-> "array", items |-> items]
JsonObject(obj) == [type |-> "object", items |-> <<>>, fields |-> obj]

\* what the fetch of line 211 and the res.json() of line 212 end in: a
\* response of the handler of server.js:403-415 (200 with the hero list, 500
\* with { error }), a body that is not JSON, or no response at all
HeroReplies ==
    { [kind |-> "response", response |-> Get(PlayerResponse(TopHeroes(f)))] :
        f \in { g \in PlayerFetches : g.out # "fail" } }
    \cup { [kind |-> "response", response |-> Get(PlayerError)],
           [kind |-> "notJson", response |-> Get(PlayerError)],
           [kind |-> "network", response |-> Get(PlayerError)] }

\* await res.json(): the body of the response, whatever its status
ResJson(response) ==
    IF response.status = 200 THEN JsonArray(response.body.heroes) ELSE JsonObject(response.body)

\* !heroes || !heroes.length: the length of an object without that field is undefined
HasNoHeroes(heroes) == heroes.type # "array" \/ Len(heroes.items) = 0

\* renderPlayerHeroes(el, heroes): what el shows afterwards
RenderPlayerHeroes(heroes) == IF HasNoHeroes(heroes) THEN "noHeroData" ELSE "grid"

\* togglePlayerHeroes(accountId, elId) up to its return or its first await,
\* el being the element of the player's row
TogglePlayerHeroes(id) ==
    /\ IF fe.open[id]
       THEN fe' = [fe EXCEPT !.open[id] = FALSE]
       ELSE IF fe.playerHeroCache[id] # null
       THEN fe' = [fe EXCEPT !.open[id] = TRUE,
                             !.heroView[id] = RenderPlayerHeroes(Get(fe.playerHeroCache[id]))]
       ELSE /\ Len(fe.heroReqs) < MaxHeroReqs
            /\ fe' = [fe EXCEPT !.open[id] = TRUE, !.heroView[id] = "loading",
                                !.heroReqs = Append(@, id)]
    /\ UNCHANGED <<refreshVars, calls, imgVars, frontVars, pureVars>>

\* the fetch of the i-th waiting call settles: lines 212-214, or the catch of
\* lines 215-217
HeroesSettle(i, r) ==
    /\ i \in 1..Len(fe.heroReqs)
    /\ LET id == fe.heroReqs[i]
           rest == [fe EXCEPT !.heroReqs = Without(fe.heroReqs, i)]
       IN fe' = IF r.kind = "response"
                THEN [rest EXCEPT !.playerHeroCache[id] = Some(ResJson(r.response)),
                                  !.heroView[id] = RenderPlayerHeroes(ResJson(r.response))]
                ELSE [rest EXCEPT !.heroView[id] = "couldNotLoad"]
    /\ UNCHANGED <<refreshVars, calls, imgVars, frontVars, pureVars>>

----------------------------------------------------------------------------
(* Series grouping, app.js: didWin (80-82), groupMatchesIntoSeries (102-139) *)

\* start times in seconds: absent, 5 hours, 6 hours
StartTimes == {null, Some(18000), Some(21600)}

\* opponent and league of a match: two opponents in league A, and one of them
\* also without a league name
Pairings ==
    { [opposing_team_id |-> 1, league_name |-> "null"],
      [opposing_team_id |-> 1, league_name |-> "A"],
      [opposing_team_id |-> 2, league_name |-> "A"] }

\* the side the team played on and the side that won
Sides ==
    { [radiant |-> TRUE, radiant_win |-> TRUE],
      [radiant |-> FALSE, radiant_win |-> FALSE],
      [radiant |-> TRUE, radiant_win |-> FALSE] }

\* the matches of a team's match list, without their position in the list
MatchShapes ==
    { [start_time |-> t, opposing_team_id |-> p.opposing_team_id, league_name |-> p.league_name,
       side |-> sd] : t \in StartTimes, p \in Pairings, sd \in Sides }

\* m.start_time || 0
StartOf(m) == IF m.start_time = null THEN 0 ELSE Get(m.start_time)

\* (m.radiant === true && m.radiant_win === true) || (m.radiant === false && m.radiant_win === false)
DidWin(m) ==
    \/ (m.side.radiant = TRUE /\ m.side.radiant_win = TRUE)
    \/ (m.side.radiant = FALSE /\ m.side.radiant_win = FALSE)

\* [...matches].sort((a, b) => (b.start_time || 0) - (a.start_time || 0)): a stable sort
RECURSIVE InsertDescending(_, _)
InsertDescending(sorted, m) ==
    IF sorted = <<>> THEN <<m>>
    ELSE IF StartOf(Head(sorted)) >= StartOf(m) THEN <<Head(sorted)>> \o InsertDescending(Tail(sorted), m)
    ELSE <<m>> \o sorted
RECURSIVE SortDescending(_)
SortDescending(list) ==
    IF list = <<>> THEN <<>>
    ELSE InsertDescending(SortDescending(SubSeq(list, 1, Len(list) - 1)), list[Len(list)])

\* s.games.sort((a, b) => (a.start_time || 0) - (b.start_time || 0)): a stable sort
RECURSIVE InsertAscending(_, _)
InsertAscending(sorted, m) ==
    IF sorted = <<>> THEN <<m>>
    ELSE IF StartOf(Head(sorted)) <= StartOf(m) THEN <<Head(sorted)>> \o InsertAscending(Tail(sorted), m)
    ELSE <<m>> \o sorted
RECURSIVE SortAscending(_)
SortAscending(list) ==
    IF list = <<>> THEN <<>>
    ELSE InsertAscending(SortAscending(SubSeq(list, 1, Len(list) - 1)), list[Len(list)])

\* Math.abs(x)
Abs(x) == IF x < 0 THEN -x ELSE x

\* the test of lines 111-113: m continues the series cur
ContinuesWithinSixHoursInclusive(cur, m) ==
    /\ cur.opponentId = m.opposing_team_id
    /\ cur.league = OrElse(m.league_name, "")
    /\ Len(cur.games) > 0
    /\ Abs(StartOf(m) - StartOf(cur.games[Len(cur.games)])) <= 6 * 3600
Continues(cur, m) ==
    /\ cur.opponentId = m.opposing_team_id
    /\ cur.league = OrElse(m.league_name, "")
    /\ Len(cur.games) > 0
    /\ Abs(StartOf(m) - StartOf(cur.games[Len(cur.games)])) < 6 * 3600

\* lines 119-124: the series a match opens
NewSeriesWithoutLoss(m) ==
    [league |-> OrElse(m.league_name, ""), opponentId |-> m.opposing_team_id,
     wins |-> IF DidWin(m) THEN 1 ELSE 0, losses |-> 0,
     games |-> <<m>>, latestTime |-> StartOf(m)]
NewSeries(m) ==
    [league |-> OrElse(m.league_name, ""), opponentId |-> m.opposing_team_id,
     wins |-> IF DidWin(m) THEN 1 ELSE 0, losses |-> IF DidWin(m) THEN 0 ELSE 1,
     games |-> <<m>>, latestTime |-> StartOf(m)]

\* the loop of lines 108-126 over the sorted matches; cur is the last series
RECURSIVE GroupLoop(_, _)
GroupLoop(sorted, series) ==
    IF sorted = <<>> THEN series
    ELSE LET m == Head(sorted)
             n == Len(series)
         IN IF n > 0 /\ Continues(series[n], m)
            THEN GroupLoop(Tail(sorted),
                           [series EXCEPT ![n] = [@ EXCEPT !.games = Append(@, m),
                                                           !.wins = IF DidWin(m) THEN @ + 1 ELSE @,
                                                           !.losses = IF DidWin(m) THEN @ ELSE @ + 1]])
            ELSE GroupLoop(Tail(sorted), Append(series, NewSeries(m)))

\* the labels 'BO1', 'BO3', 'BO5' and `${total}G`, as prefix, number and suffix
BestOf(n) == [prefix |-> "BO", n |-> n, suffix |-> ""]
GamesLabel(total) == [prefix |-> "", n |-> total, suffix |-> "G"]

\* lines 129-134
BoTypeAlwaysBestOf(total, max) ==
    IF total = 1 THEN BestOf(1) ELSE IF total <= 3 THEN BestOf(3) ELSE BestOf(5)
BoType(total, max) ==
    IF total = 1 THEN BestOf(1)
    ELSE IF max = 2 /\ total <= 3 THEN BestOf(3)
    ELSE IF max = 3 /\ total <= 5 THEN BestOf(5)
    ELSE GamesLabel(total)

Max(a, b) == IF a >= b THEN a ELSE b

\* lines 128-137: the label, seriesWon and the ascending order of the games
Finish(sr) ==
    [league |-> sr.league, opponentId |-> sr.opponentId, wins |-> sr.wins, losses |-> sr.losses,
     games |-> SortAscending(sr.games), latestTime |-> sr.latestTime,
     boType |-> BoType(Len(sr.games), Max(sr.wins, sr.losses)),
     seriesWon |-> sr.wins > sr.losses]

\* groupMatchesIntoSeries(matches)
GroupMatchesIntoSeries(matches) ==
    IF matches = <<>> THEN <<>>
    ELSE LET series == GroupLoop(SortDescending(matches), <<>>)
         IN [k \in 1..Len(series) |-> Finish(series[k])]

\* one more match in the list that will be grouped; match_id tells the matches apart
AddMatch(shape) ==
    /\ seriesOut = null
    /\ Len(matchesIn) < MaxMatches
    /\ matchesIn' = Append(matchesIn,
                           [match_id |-> Len(matchesIn) + 1, start_time |-> shape.start_time,
                            opposing_team_id |-> shape.opposing_team_id,
                            league_name |-> shape.league_name, side |-> shape.side])
    /\ UNCHANGED <<refreshVars, calls, imgVars, frontVars, fe, wikiPage, scraped, seriesOut>>

\* the call groupMatchesIntoSeries(matchesIn)
GroupMatches ==
    /\ seriesOut = null
    /\ seriesOut' = Some(GroupMatchesIntoSeries(matchesIn))
    /\ UNCHANGED <<refreshVars, calls, imgVars, frontVars, fe, wikiPage, scraped, matchesIn>>

----------------------------------------------------------------------------
(* Specifications *)

Init ==
    /\ listening = FALSE
    /\ cachedData = null
    /\ isRefreshing = FALSE
    /\ cycles = <<>>
    /\ liveRuns = 0
    /\ now = 0
    /\ resp = null
    /\ trigger = "none"
    /\ installed = FALSE
    /\ calls = [id \in 1..MaxCalls |-> IdleCall]
    /\ imgCache = [u \in Urls |-> null]
    /\ imgReqs = <<>>
    /\ imgOutbound = {}
    /\ imgServed = [u \in Urls |-> null]
    /\ unhandled = FALSE
    /\ playerHeroCache = [id \in PlayerIds |-> null]
    /\ playerReqs = <<>>
    /\ fileReqs = <<>>
    /\ wikiPage = <<>>
    /\ scraped = null
    /\ fe = InitialPage
    /\ matchesIn = <<>>
    /\ seriesOut = null

Next ==
    \/ Listen
    \/ TimerRefresh
    \/ ApiRefresh
    \/ \E i \in 1..Len(cycles) : FanOutSettles(i)
    \/ \E i \in 1..Len(cycles) : RosterSettles(i)
    \/ \E i \in 1..Len(cycles) : UpcomingSettles(i)
    \/ TimerLive
    \/ LiveSettles
    \/ AdvanceTime

Spec == Init /\ [][Next]_vars

\* fetchWithRetry on its own
NextRetry ==
    \/ \E id \in 1..MaxCalls : CallFetchWithRetry(id)
    \/ \E id \in 1..MaxCalls : FetchJSONSettles(id)
    \/ \E id \in 1..MaxCalls : BackoffTimerFires(id)

SpecRetry == Init /\ [][NextRetry]_vars

\* the image proxy on its own; an unhandled rejection ends the process
NextImg ==
    \/ Listen
    \/ \E q \in ImgQueries : ApiImg(q)
    \/ \E i \in 1..Len(imgReqs), ans \in ImgAnswers : ImgAnswered(i, ans)
    \/ AdvanceHalfDay

SpecImg == Init /\ [][NextImg]_vars

\* the outcomes of the fan-out in which at most /heroStats fails
DataFanOutOutcomes ==
    { o \in FanOutOutcomes : \A f \in SubFetches : o[f] = "fail" => f = <<"global", "heroStats">> }

\* /api/data against the refresh orchestrator: cycles that install (with or
\* without the upcoming matches) or are aborted by /heroStats, live updates,
\* and the clock
NextData ==
    \/ Listen
    \/ TimerRefresh
    \/ ApiRefresh
    \/ ApiData
    \/ \E i \in 1..Len(cycles), o \in DataFanOutOutcomes, games \in LiveResponses :
          FanOutSettlesWith(i, o, games)
    \/ \E i \in 1..Len(cycles) : RosterSettlesWith(i, "ok")
    \/ \E i \in 1..Len(cycles) : UpcomingSettles(i)
    \/ TimerLive
    \/ \E games \in LiveResponses : LiveSettlesWith("ok", games)
    \/ AdvanceTime

SpecData == Init /\ [][NextData]_vars

\* the HTTP front door: every route, with one player looked up, refresh cycles
\* whose requests all succeed and an origin that answers image requests
\* without redirects
NextHttp ==
    \/ Listen
    \/ ApiData
    \/ ApiRefresh
    \/ ApiPlayer(101)
    \/ \E i \in 1..Len(playerReqs), f \in PlayerFetches : PlayerSettles(i, f)
    \/ \E q \in ImgQueries : ApiImg(q)
    \/ \E i \in 1..Len(imgReqs), ans \in { a \in ImgAnswers : a.kind # "redirect" } : ImgAnswered(i, ans)
    \/ \E u \in StaticUrls : ApiStatic(u)
    \/ \E i \in 1..Len(fileReqs) : FileRead(i)
    \/ \E i \in 1..Len(cycles) : FanOutSettlesWith(i, [f \in SubFetches |-> "ok"], {})
    \/ \E i \in 1..Len(cycles) : RosterSettlesWith(i, "ok")
    \/ \E i \in 1..Len(cycles) : UpcomingSettlesWith(i, "ok")

SpecHttp == Init /\ [][NextHttp]_vars

\* the player hero cache on its own, with the clock
NextPlayer ==
    \/ Listen
    \/ \E id \in PlayerIds : ApiPlayer(id)
    \/ \E i \in 1..Len(playerReqs), f \in PlayerFetches : PlayerSettles(i, f)
    \/ AdvanceQuarterHour

SpecPlayer == Init /\ [][NextPlayer]_vars

\* the parser of fetchUpcoming on every page
NextScrape == \E page \in WikiPages(MaxBlocks) : ParseUpcoming(page)

SpecScrape == Init /\ [][NextScrape]_vars

\* the front end against a server that answers /api/data in any way
NextFront ==
    \/ DomContentLoaded
    \/ \E r \in DataReplies : LoadSettles(r)
    \/ LoadTimerFires
    \/ HashChange
    \/ PollTick
    \/ \E i \in 1..Len(fe.polls), r \in DataReplies : PollSettles(i, r)

SpecFront == Init /\ [][NextFront]_vars

\* the player rows against a server that answers in any way
NextHeroes ==
    \/ \E id \in PlayerIds : TogglePlayerHeroes(id)
    \/ \E i \in 1..Len(fe.heroReqs), r \in HeroReplies : HeroesSettle(i, r)

SpecHeroes == Init /\ [][NextHeroes]_vars

\* groupMatchesIntoSeries on every match list
NextSeries ==
    \/ \E shape \in MatchShapes : AddMatch(shape)
    \/ GroupMatches

SpecSeries == Init /\ [][NextSeries]_vars

----------------------------------------------------------------------------
(* Claims about the refresh orchestrator, checked under Spec *)

\* a step that calls refreshAllData: the startup call, a tick of the
\* 5-minute timer, or GET /api/refresh
IsTrigger == Listen \/ TimerRefresh \/ ApiRefresh

\* a step in which some cycle reaches line 303 and installs its snapshot
IsInstall == \E i \in 1..Len(cycles), out \in ScrapeOutcomes : UpcomingSettlesWith(i, out)

\* the fields of a snapshot that refreshLiveOnly does not assign
FrameFields == {"teams", "heroMap", "upcoming", "teamConfig", "lastUpdated"}
SameExceptLive(a, b) == \A fld \in FrameFields : a[fld] = b[fld]

\* C1: at most one refreshAllData invocation is in progress (between setting
\* the flag and the finally block) in every reachable state, whatever the
\* interleaving of the startup call, the timer ticks and GET /api/refresh.
C1_AtMostOneCycle == Len(cycles) <= 1

\* C1 witness: a second cycle is in progress after a first one installed its
\* snapshot, and a trigger arrived meanwhile and was dropped
C1_Witness == Len(cycles) = 1 /\ installed /\ trigger = "dropped"

\* C2: a trigger that arrives while a cycle is in progress changes neither the
\* cycles nor the outstanding requests (it issues no fetch), and a cycle starts
\* only in a step that is itself a trigger taken while no cycle is in progress
\* (so the end of a cycle never starts one: a dropped trigger is not remembered).
C2_DroppedTriggerNotRemembered ==
    [][ /\ (IsTrigger /\ isRefreshing) =>
             (cycles' = cycles /\ liveRuns' = liveRuns /\ trigger' = "dropped")
        /\ (Len(cycles') > Len(cycles)) => (IsTrigger /\ ~isRefreshing)
        /\ (Len(cycles') < Len(cycles)) => ~isRefreshing' ]_vars

\* C2 witness: a trigger was dropped, the cycle has ended since, and no cycle
\* is in progress
C2_Witness == trigger = "dropped" /\ Len(cycles) = 0 /\ ~isRefreshing /\ installed

\* the fan-out outcomes in which exactly one sub-fetch fails after its retries
SingleFailure == { o \in FanOutOutcomes : Cardinality({ f \in SubFetches : o[f] = "fail" }) = 1 }

\* the value the cycle holds for sub-fetch f once the fan-out has resolved
FieldAfter(c, f) ==
    IF f = <<"global", "heroStats">> THEN Get(c.heroMap)
    ELSE IF f = <<"global", "proPlayers">> THEN Get(c.proPlayers)
    ELSE Get(c.teamResults)[f[1]][f[2]]
IsEmptyField(c, f) ==
    IF f = <<"global", "live">> THEN Get(c.live) = {}
    ELSE FieldAfter(c, f) \in {EMPTY_LIST, EMPTY_OBJ}

\* C3 (as claimed): when exactly one sub-fetch of the fan-out fails after its
\* retries, the cycle is not aborted: it goes on towards installing its
\* snapshot, with the field of the failed sub-fetch empty.
C3_SingleFailureTolerated ==
    [][ /\ \A i \in 1..Len(cycles), o \in SingleFailure, games \in LiveResponses :
             FanOutSettlesWith(i, o, games) =>
                 /\ Len(cycles') = Len(cycles)
                 /\ \A f \in SubFetches : o[f] = "fail" => IsEmptyField(cycles'[i], f) ]_vars

\* C4 (as claimed): once a snapshot is installed, the cache changes only by a
\* cycle installing a new snapshot.
C4_SnapshotImmutable ==
    [][ (cachedData # null /\ cachedData' # cachedData) => IsInstall ]_vars

\* C4 (amended): once a snapshot is installed, the cache changes only by a
\* cycle installing a new snapshot or by refreshLiveOnly assigning liveMatches
\* and liveUpdated of the installed snapshot; teams, heroMap, upcoming,
\* teamConfig and lastUpdated change only by wholesale replacement.
C4_OnlyLiveFieldsMutable ==
    [][ (cachedData # null /\ cachedData' # cachedData) =>
            \/ IsInstall
            \/ /\ LiveSettles
               /\ cachedData' # null
               /\ SameExceptLive(Get(cachedData), Get(cachedData')) ]_vars

\* C4 witness: refreshLiveOnly has modified an installed snapshot in place
C4_Witness ==
    /\ cachedData # null
    /\ Get(cachedData).liveUpdated # null
    /\ Get(cachedData).liveMatches # {}

\* C9: a refreshLiveOnly completion changes nothing but liveMatches and
\* liveUpdated of the current snapshot, leaves a null cache null, leaves
\* isRefreshing and the cycles alone, and is not held back by isRefreshing:
\* the timer starts it and its completion runs whether or not a cycle is in
\* progress.
C9_LiveOnlyFrame ==
    [][ /\ LiveSettles =>
             /\ isRefreshing' = isRefreshing
             /\ cycles' = cycles
             /\ cachedData = null => cachedData' = null
             /\ cachedData # null =>
                  /\ cachedData' # null
                  /\ SameExceptLive(Get(cachedData), Get(cachedData'))
                  /\ Get(cachedData').liveUpdated = Some(ToISOString(now))
        /\ liveRuns > 0 => ENABLED LiveSettles
        /\ (listening /\ liveRuns < MaxLiveRuns) => ENABLED TimerLive ]_vars

\* C9 witness: while a cycle is in progress, the snapshot of an earlier cycle
\* carries a liveUpdated later than its lastUpdated
C9_Witness ==
    /\ isRefreshing
    /\ Len(cycles) = 1
    /\ cachedData # null
    /\ Get(cachedData).liveUpdated # null
    /\ Get(cachedData).liveUpdated # Some(Get(cachedData).lastUpdated)

----------------------------------------------------------------------------
(* Claims about fetchWithRetry, checked under SpecRetry *)

CallIds == 1..MaxCalls

\* C8: an invocation makes at most 3 attempts; it waits 1000 ms after the
\* first failure and 2000 ms after the second, and only then retries; it
\* returns at its first successful attempt; the third failure is thrown with
\* no third wait; and once it has returned or thrown it does nothing more.
C8_RetryDiscipline ==
    /\ [](\A id \in CallIds :
            LET c == calls[id] IN
            /\ c.attempts <= 3
            /\ Len(c.waits) <= 2
            /\ c.waits = [k \in 1..Len(c.waits) |-> 1000 * k]
            /\ Len(c.waits) = (IF c.pc = "thrown" THEN c.failed - 1 ELSE c.failed)
            /\ c.pc = "fetching" => c.attempts = c.failed + 1
            /\ c.pc = "sleeping" => c.attempts = c.failed
            /\ c.pc = "returned" => (c.attempts = c.failed + 1 /\ c.result \in {"ok", "null"})
            /\ c.pc = "thrown" => (c.attempts = 3 /\ c.failed = 3 /\ c.result = "fail"))
    /\ [][ \A id \in CallIds :
             calls[id].pc \in {"returned", "thrown"} => calls'[id] = calls[id] ]_vars

\* C8 witness: one invocation has thrown after its third failure, another has
\* returned at its second attempt
C8_Witness ==
    /\ \E id \in CallIds : calls[id].pc = "thrown"
    /\ \E id \in CallIds : calls[id].pc = "returned" /\ calls[id].attempts = 2

----------------------------------------------------------------------------
(* Claims about the image proxy, checked under SpecImg *)

\* C5 (as claimed): every url proxyImage passes to https.get starts with
\* https://liquipedia.net/, and a request whose url parameter is missing, empty
\* or decodes to a text without that prefix is answered 400 and issues no
\* outbound request.
C5_ProxyRestrictedToTrusted ==
    [][ /\ \A u \in imgOutbound' : StartsWithTrusted(u)
        /\ \A q \in ImgQueries :
             ( /\ ApiImg(q)
               /\ \/ q = null
                  \/ (~DecodeThrows(Get(q)) /\ ~StartsWithTrusted(DecodeURIComponent(Get(q)))) )
             => (resp' = ImgBadRequest /\ imgOutbound' = imgOutbound) ]_vars

\* C10 (as claimed): once /api/img has fetched and served url u, a request for
\* u is a cache hit (served from imgCache, no outbound request) for the next 24
\* hours: the entry is stored under the requested url.
C10_ServedThenCached ==
    \A u \in Urls :
        (imgServed[u] # null /\ now - Get(imgServed[u]) < IMG_TTL) => ImgCacheHit(imgCache, u, now)

----------------------------------------------------------------------------
(* Claims about /api/data, checked under SpecData *)

\* what /api/data has to answer in the current state, told from the history
\* of the cycles and not from cachedData
DataExpected ==
    IF installed
    THEN Some([route |-> "/api/data", status |-> 200, body |-> [snapshot |-> Get(cachedData)]])
    ELSE Some([route |-> "/api/data", status |-> 503, body |-> [error |-> "Data is loading..."]])

\* C6: GET /api/data answers 503 with an error body exactly when no refresh
\* cycle has reached the install of line 303 since the process started, and
\* 200 with the current snapshot otherwise; once cachedData holds a snapshot no
\* step (an aborted cycle, a live update) makes it null again.
C6_DataAvailability ==
    [][ /\ ApiData => resp' = DataExpected
        /\ cachedData # null => cachedData' # null
        /\ installed => (installed' /\ cachedData' # null) ]_vars

\* C6 witness: /api/data has answered 200 with the installed snapshot while a
\* later cycle is in progress
C6_Witness ==
    /\ resp # null
    /\ Get(resp).route = "/api/data"
    /\ Get(resp).status = 200
    /\ cachedData # null
    /\ Get(resp).body.snapshot = Get(cachedData)
    /\ Len(cycles) = 1

----------------------------------------------------------------------------
(* Claims about the HTTP front door, checked under SpecHttp *)

\* C7 (as claimed): no exception and no rejected promise leaves the request
\* handler, whatever the request.
C7_NoUnhandledError == ~unhandled

----------------------------------------------------------------------------
(* Claims about the player hero cache, checked under SpecPlayer *)

\* an entry for id stored less than 30 minutes ago
FreshEntry(id) ==
    playerHeroCache[id] # null /\ now - Get(playerHeroCache[id]).timestamp < 1800000

\* C11: a call of getPlayerHeroes(id) with an entry stored less than 30
\* minutes ago answers that entry's data and issues no request; otherwise it
\* issues a request and, when that succeeds, stores the result under id with
\* the current time; a call never changes another id's entry, and a failed
\* fetch changes no entry.
C11_PlayerCache ==
    [][ /\ \A id \in PlayerIds :
             ApiPlayer(id) =>
               /\ playerHeroCache' = playerHeroCache
               /\ IF FreshEntry(id)
                  THEN /\ resp' = PlayerResponse(Get(playerHeroCache[id]).data)
                       /\ playerReqs' = playerReqs
                  ELSE playerReqs' = Append(playerReqs, id)
        /\ \A i \in 1..Len(playerReqs), f \in PlayerFetches :
             PlayerSettles(i, f) =>
               /\ \A id \in PlayerIds \ {playerReqs[i]} : playerHeroCache'[id] = playerHeroCache[id]
               /\ f.out = "fail" => playerHeroCache' = playerHeroCache
               /\ f.out # "fail" =>
                    /\ playerHeroCache'[playerReqs[i]] # null
                    /\ Get(playerHeroCache'[playerReqs[i]]).timestamp = now
                    /\ resp' = PlayerResponse(Get(playerHeroCache'[playerReqs[i]]).data) ]_vars

\* C11 witness: one id's entry is exactly 30 minutes old and is being fetched
\* again, while another id's entry is still fresh
C11_Witness ==
    \E id \in PlayerIds, other \in PlayerIds :
        /\ id # other
        /\ playerHeroCache[id] # null
        /\ now - Get(playerHeroCache[id]).timestamp = 1800000
        /\ playerReqs = <<id>>
        /\ FreshEntry(other)

----------------------------------------------------------------------------
(* Claims about /api/refresh, checked under SpecData *)

RefreshStarted ==
    Some([route |-> "/api/refresh", status |-> 200, body |-> [status |-> "refresh started"]])

\* C12: GET /api/refresh can be served in every state of the running server;
\* the step that calls refreshAllData is the step that sends 200
\* {status: 'refresh started'}, whether the call started a cycle or was
\* dropped, and no later step (the end of a cycle included) sends it.
C12_RefreshReturnsImmediately ==
    [][ /\ listening => ENABLED ApiRefresh
        /\ ApiRefresh => (resp' = RefreshStarted /\ trigger' \in {"started", "dropped"})
        /\ (resp' # resp /\ resp' = RefreshStarted) => ApiRefresh ]_vars

\* C12 witness: the response was sent for a trigger that was dropped because a
\* cycle is in progress
C12_Witness == resp = RefreshStarted /\ trigger = "dropped" /\ Len(cycles) = 1 /\ isRefreshing

----------------------------------------------------------------------------
(* Claims about the wiki scrape within a cycle, checked under Spec *)

----------------------------------------------------------------------------
(* Claims about the parser of fetchUpcoming, checked under SpecScrape *)

\* what the claim asks of block k of the page: at least two distinct team
\* names, one of them matching a tracked team, and a timestamp that is absent
\* or not more than 3600 seconds before the scrape
Qualifies(k) ==
    LET teamNames == TeamNames(wikiPage[k].titles, <<>>)
    IN /\ Len(teamNames) >= 2
       /\ OurKey(teamNames) # null
       /\ \/ wikiPage[k].timestamp = null
          \/ Get(wikiPage[k].timestamp) * 1000 >= DateNow - 3600000

\* C14 (as claimed): every entry of the scraped list has a teamKey of TEAMS,
\* comes from a block that qualifies, and carries no timestamp or one not more
\* than 3600 seconds before the scrape; and the blocks that qualify all have
\* their entry, whatever the other blocks of the page are.
C14_UpcomingFiltered ==
    scraped # null =>
        LET list == Get(scraped)
        IN /\ \A n \in 1..Len(list) :
                /\ list[n].teamKey \in teamKeys
                /\ Qualifies(list[n].block)
                /\ \/ list[n].timestamp = null
                   \/ Get(list[n].timestamp) * 1000 >= DateNow - 3600000
           /\ \A k \in 1..Len(wikiPage) : Qualifies(k) => \E n \in 1..Len(list) : list[n].block = k

----------------------------------------------------------------------------
(* Claims about the front end, checked under SpecFront *)

\* C15: the initial load makes at most 11 attempts (n = 0..10), each retry
\* scheduled 2000 ms after the failure before it; the first success hides the
\* overlay, renders and starts polling; after the 11th failure the error box
\* is shown, no further attempt is made and polling never starts.
C15_BoundedLoad ==
    [][ /\ fe'.attempts <= 11 /\ fe'.n <= 10 /\ fe'.attempts <= fe'.n + 1
        /\ \A k \in 1..Len(fe'.waits) : fe'.waits[k] = 2000
        /\ Len(fe'.waits) = fe'.n + (IF fe'.load = "sleeping" THEN 1 ELSE 0)
        /\ \A r \in DataReplies :
             LoadSettles(r) =>
               /\ r.kind = "ok" =>
                    /\ fe'.load = "done" /\ ~fe'.overlay /\ fe'.timers = 1
                    /\ fe'.ran = {"hideLoading", "renderCurrentView", "startPolling"}
                    /\ fe'.lastRenderedHash = r.lastUpdated
               /\ (r.kind # "ok" /\ fe.attempts < 11) => (fe'.load = "sleeping" /\ fe'.timers = 0)
               /\ (r.kind # "ok" /\ fe.attempts = 11) =>
                    (fe'.load = "gaveUp" /\ fe'.errorBox /\ ~fe'.overlay /\ fe'.timers = 0)
        /\ fe.load = "gaveUp" => (fe'.load = "gaveUp" /\ fe'.attempts = 11 /\ fe'.timers = 0)
        /\ fe.load = "done" => (fe'.load = "done" /\ fe'.attempts = fe.attempts /\ ~fe'.errorBox)
        /\ fe'.timers > 0 => fe'.load = "done" ]_vars

\* C15 witness: the eleventh attempt has failed and the error box is shown
C15_Witness ==
    /\ fe.load = "gaveUp" /\ fe.attempts = 11 /\ fe.n = 10 /\ Len(fe.waits) = 10
    /\ fe.errorBox /\ ~fe.overlay /\ fe.timers = 0

----------------------------------------------------------------------------
(* Claims about groupMatchesIntoSeries, checked under SpecSeries *)

\* the series of the result that holds the match with this match_id
SeriesOf(id) ==
    CHOOSE k \in 1..Len(Get(seriesOut)) :
        \E g \in 1..Len(Get(seriesOut)[k].games) : Get(seriesOut)[k].games[g].match_id = id

\* the league of a match as the grouping reads it (an absent name is '')
LeagueOf(m) == IF m.league_name = "null" THEN "" ELSE m.league_name

\* C16: in the result of groupMatchesIntoSeries, the games of a series have
\* one opposing_team_id and one league and adjacent games are less than 6
\* hours (21600 s) apart; and going through the matches in descending
\* start_time order, a match opens a new series exactly when its opponent or
\* its league differs from the match before it or it lies 6 hours or more
\* from the match before it, the series following one another in that order.
C16_SeriesGrouping ==
    seriesOut # null =>
        LET out == Get(seriesOut)
            sorted == SortDescending(matchesIn)
        IN /\ \A k \in 1..Len(out) :
                /\ \A g \in 1..Len(out[k].games) :
                     /\ out[k].games[g].opposing_team_id = out[k].opponentId
                     /\ LeagueOf(out[k].games[g]) = out[k].league
                /\ \A g \in 1..(Len(out[k].games) - 1) :
                     /\ StartOf(out[k].games[g]) <= StartOf(out[k].games[g + 1])
                     /\ StartOf(out[k].games[g + 1]) - StartOf(out[k].games[g]) < 21600
           /\ \A j \in 1..Len(sorted) : \E k \in 1..Len(out) :
                \E g \in 1..Len(out[k].games) : out[k].games[g].match_id = sorted[j].match_id
           /\ Len(sorted) >= 1 => SeriesOf(sorted[1].match_id) = 1
           /\ \A j \in 2..Len(sorted) :
                LET differs == \/ sorted[j].opposing_team_id # sorted[j - 1].opposing_team_id
                               \/ LeagueOf(sorted[j]) # LeagueOf(sorted[j - 1])
                               \/ StartOf(sorted[j - 1]) - StartOf(sorted[j]) >= 21600
                IN SeriesOf(sorted[j].match_id) =
                     SeriesOf(sorted[j - 1].match_id) + (IF differs THEN 1 ELSE 0)

\* C16 witness: three matches against one opponent in one league, of which
\* the two latest form a series, and the earliest lies 6 hours from the one
\* after it and forms a series of its own
C16_Witness ==
    /\ seriesOut # null
    /\ Len(matchesIn) = 3
    /\ Len(Get(seriesOut)) = 2
    /\ Len(Get(seriesOut)[1].games) = 2
    /\ Get(seriesOut)[2].opponentId = Get(seriesOut)[1].opponentId
    /\ Get(seriesOut)[2].league = Get(seriesOut)[1].league

PlacesOf(id) ==
    { p \in (1..Len(Get(seriesOut))) \X (1..MaxMatches) :
        /\ p[2] <= Len(Get(seriesOut)[p[1]].games)
        /\ Get(seriesOut)[p[1]].games[p[2]].match_id = id }

\* the number of games in the first k series of the result
RECURSIVE GamesUpTo(_)
GamesUpTo(k) == IF k = 0 THEN 0 ELSE GamesUpTo(k - 1) + Len(Get(seriesOut)[k].games)

\* the number of games of a series that didWin counts as won
WonIn(sr) == Cardinality({ g \in 1..Len(sr.games) : DidWin(sr.games[g]) })

\* C21: groupMatchesIntoSeries partitions its input: every input match is in
\* exactly one place of the result, unchanged, and a game of the result is an
\* input match; in each series wins is the number of its games won, losses
\* the number of the others, so wins + losses is the number of its games; and
\* the numbers of games of all series sum to the number of input matches.
C21_SeriesPartition ==
    seriesOut # null =>
        LET out == Get(seriesOut)
        IN /\ \A id \in 1..Len(matchesIn) :
                /\ Cardinality(PlacesOf(id)) = 1
                /\ \A p \in PlacesOf(id) : out[p[1]].games[p[2]] = matchesIn[id]
           /\ \A k \in 1..Len(out) :
                /\ \A g \in 1..Len(out[k].games) : out[k].games[g].match_id \in 1..Len(matchesIn)
                /\ out[k].wins = WonIn(out[k])
                /\ out[k].losses = Len(out[k].games) - WonIn(out[k])
                /\ out[k].wins + out[k].losses = Len(out[k].games)
           /\ GamesUpTo(Len(out)) = Len(matchesIn)
           /\ matchesIn = <<>> <=> out = <<>>

\* C21 witness: three matches grouped into two series, one of them with two
\* games, and a series that opens with a lost game
C21_Witness ==
    /\ seriesOut # null
    /\ Len(matchesIn) = 3
    /\ Len(Get(seriesOut)) = 2
    /\ \E k \in 1..2 : Len(Get(seriesOut)[k].games) = 2
    /\ \E k \in 1..2 : Get(seriesOut)[k].losses >= 1 /\ ~DidWin(Get(seriesOut)[k].games[1])

----------------------------------------------------------------------------
(* Claims about the player rows of the front end, checked under SpecHeroes *)

\* the ways the request of line 211 fails: the 500 of the handler, with its
\* error body, and a network failure
HeroFailures ==
    { r \in HeroReplies : r.kind = "network" \/ (r.kind = "response" /\ r.response.status = 500) }

\* the front-end cache holds a hero list for this player
HoldsHeroList(id) ==
    fe.playerHeroCache[id] # null /\ Get(fe.playerHeroCache[id]).type = "array"

\* C22 (as claimed): the front-end playerHeroCache holds only hero lists; a
\* request that ends in the 500 response or in a network failure stores
\* nothing for the player; and expanding a player for whom no hero list is
\* stored issues a new request.
C22_HeroCacheHoldsOnlyLists ==
    [][ /\ \A i \in 1..Len(fe.heroReqs), r \in HeroFailures :
             HeroesSettle(i, r) => fe'.playerHeroCache = fe.playerHeroCache
        /\ \A id \in PlayerIds :
             /\ fe'.playerHeroCache[id] # null => Get(fe'.playerHeroCache[id]).type = "array"
             /\ (TogglePlayerHeroes(id) /\ ~fe.open[id] /\ ~HoldsHeroList(id))
                  => fe'.heroReqs = Append(fe.heroReqs, id) ]_vars

----------------------------------------------------------------------------
(* Claims about the static files, checked under SpecHttp *)

\* the path names a file below the directory of the server
InsideDirname(p) ==
    Len(p) > Len(DIRNAME) /\ SubSeq(p, 1, Len(DIRNAME)) = DIRNAME

\* C23 (as claimed): a static request whose path, once its '..' segments are
\* resolved, lies outside the directory of the server is answered with 404,
\* and a 200 carries only the content of a file inside that directory.
C23_StaticStaysInsideDirname ==
    [][ \A i \in 1..Len(fileReqs) :
          FileRead(i) =>
            /\ ~InsideDirname(fileReqs[i].filePath) => resp' = NotFound
            /\ Get(resp').status = 200 =>
                 \E p \in DOMAIN Disk : InsideDirname(p) /\ Get(resp').body.content = Disk[p] ]_vars

----------------------------------------------------------------------------
(* Claims about the cycle and the live refresher together, checked under Spec *)

\* the time of an ISO string made by ToISOString
TimeOf(iso) == iso[2]

\* C19 (as claimed): when a cycle installs its snapshot over a cache whose
\* liveMatches were written by refreshLiveOnly, the /live response the cycle
\* installs arrived no earlier than the one refreshLiveOnly wrote.
C19_LiveNeverRegresses ==
    [][ \A i \in 1..Len(cycles), out \in ScrapeOutcomes :
          ( /\ UpcomingSettlesWith(i, out)
            /\ cachedData # null
            /\ Get(cachedData).liveUpdated # null )
          => Get(cycles[i].liveAt) >= TimeOf(Get(Get(cachedData).liveUpdated)) ]_vars

\* C20: no step of a cycle that has not reached the install (a step that
\* changes cycles while the cycle is in its fan-out or its roster awaits)
\* changes cachedData, the step in which the cycle fails included; the step in
\* which a cycle ends, by install or by failure, sets isRefreshing to false;
\* isRefreshing is true
\* exactly while a cycle is in progress; and a trigger that arrives when no
\* cycle is in progress, after a failed cycle too, starts a new cycle.
C20_FailedCycleCleansUp ==
    [][ /\ \A i \in 1..Len(cycles) :
             /\ (cycles[i].pc # "upcoming" /\ cycles' # cycles) => cachedData' = cachedData
             /\ (cycles[i].pc = "fanout" /\ cycles' = Without(cycles, i)) => ~isRefreshing'
        /\ Len(cycles') < Len(cycles) => ~isRefreshing'
        /\ isRefreshing' <=> Len(cycles') = 1
        /\ (listening /\ ~isRefreshing) => ENABLED TimerRefresh
        /\ (IsTrigger /\ ~isRefreshing) =>
             (trigger' = "started" /\ isRefreshing' /\ Len(cycles') = 1) ]_vars

\* C20 witness: the first cycle has failed (nothing was ever installed) and a
\* later trigger has started the next cycle
C20_Witness ==
    /\ listening /\ ~installed /\ cachedData = null
    /\ resp = RefreshStarted /\ trigger = "started"
    /\ isRefreshing /\ Len(cycles) = 1

====
